---- MODULE Spec2Model ----
(***************************************************************************)
(* State-machine model of the TrainTracker page component                  *)
(* (src/frontend/pages/train-tracker.tsx): the React state cells, the      *)
(* mount effect that polls the fleet, and the asynchronous continuations   *)
(* of fetchAllTrains and searchTrains.                                     *)
(*                                                                         *)
(* JavaScript runs one continuation at a time, so every synchronous        *)
(* segment of a handler (from its call or from the resumption of an await  *)
(* to the next await or return) is atomic.  The segment between            *)
(* `await apiGet(...)` and `await response.json()` reads and writes no     *)
(* state, so a call has one step that sends the request and one step that  *)
(* handles its outcome: apiGet rejects, the response is not ok, reading    *)
(* the body rejects, or the body is read.  A state setter call is          *)
(* modelled as the write of the cell it sets.                              *)
(***************************************************************************)
EXTENDS Integers, Sequences, FiniteSets, TLC

VARIABLES
    phase,          \* "rendered" (first render done), "mounted" (effect ran), "unmounted" (cleanup ran)
    timers,         \* number of live setInterval timers
    searchQuery,    \* useState('')            line 32
    selectedTrain,  \* useState(null)          line 33
    allTrains,      \* useState([])            line 34
    loading,        \* useState(false)         line 35
    error,          \* useState(null)          line 36
    lastUpdated,    \* useState(null)          line 37
    polls,          \* fetchAllTrains calls in flight, in the order they were started;
                    \* sel is the selectedTrain the call reads
    searches,       \* number of searchTrains calls in flight
    last,           \* history: the event handled by the last step and its input
    override,       \* history: the selection change made by the last overriding search
    status,         \* the argument of a call of getStatusColor
    statusColor     \* the value that call returned, None before it returns

vars == <<phase, timers, searchQuery, selectedTrain, allTrains,
          loading, error, lastUpdated, polls, searches, last, override,
          status, statusColor>>

(***************************************************************************)
(* Bounds of the model.                                                    *)
(***************************************************************************)
MaxInFlight == 2
MaxSearchesInFlight == 2

TrainIds == {1, 2}
\* ver stands for every field of a TrainPosition other than trainId
Versions == {0, 1}
\* the readings of new Date(): an earlier and a later instant
Times == {0, 1}

(***************************************************************************)
(* Values.  null / undefined is the empty sequence None, a present value x *)
(* is Some(x).                                                             *)
(***************************************************************************)
None == <<>>
Some(x) == <<x>>

TrainPosition == [trainId : TrainIds, ver : Versions]

RECURSIVE IdsAscending(_)
IdsAscending(S) ==
    IF S = {} THEN <<>>
    ELSE LET m == CHOOSE x \in S : \A y \in S : x <= y
         IN  <<m>> \o IdsAscending(S \ {m})

RECURSIVE FleetOf(_, _)
FleetOf(ids, f) ==
    IF ids = <<>> THEN <<>>
    ELSE <<[trainId |-> Head(ids), ver |-> f[Head(ids)]]>> \o FleetOf(Tail(ids), f)

\* a fleet snapshot: records with pairwise distinct trainId
Fleets == { FleetOf(IdsAscending(S), f) : S \in SUBSET TrainIds, f \in [TrainIds -> Versions] }

Reverse(s) == [i \in 1..Len(s) |-> s[Len(s) + 1 - i]]

\* the results of a search: any order
ResultLists == Fleets \cup { Reverse(s) : s \in Fleets }

\* the text of searchQuery: a string over a blank and a letter
Queries == { <<>>, <<" ", " ">>, <<" ", "a">> }

SearchFailedMessage == "Search failed. Please try again."
SearchErrorMessage == "Search error. Please check your connection."
NoMatchAsFailure == "Search failed. Please try again."

NoMatchMessage == "No trains found matching your search"

RemoveAt(s, i) == SubSeq(s, 1, i - 1) \o SubSeq(s, i + 1, Len(s))

Ids(trains) == { trains[i].trainId : i \in 1..Len(trains) }

\* Array.prototype.find on trainId: the first match, or undefined
Find(trains, id) ==
    LET idx == { i \in 1..Len(trains) : trains[i].trainId = id }
    IN  IF idx = {} THEN None
        ELSE Some(trains[CHOOSE i \in idx : \A j \in idx : i <= j])

\* String.prototype.trim
RECURSIVE TrimLeft(_)
TrimLeft(s) == IF s # <<>> /\ Head(s) = " " THEN TrimLeft(Tail(s)) ELSE s

TrimNothing(s) == s

Trim(s) == Reverse(TrimLeft(Reverse(TrimLeft(s))))

\* history: an event.  body is the list the response held; dropped, early,
\* again, threw, behind and regress say of a successful poll whether it
\* removed a train, was in flight when the overriding search was applied,
\* returned the same body as the successful poll handled right before it,
\* threw after its writes, how many calls started before it it left in
\* flight, and whether it was started before the successful poll handled
\* right before it.
Event(op) ==
    [op |-> op, body |-> None, dropped |-> FALSE, early |-> FALSE,
     again |-> FALSE, threw |-> FALSE, behind |-> 0, regress |-> FALSE]

Init ==
    /\ phase = "rendered"
    /\ timers = 0
    /\ searchQuery = <<>>
    /\ selectedTrain = None
    /\ allTrains = <<>>
    /\ loading = FALSE
    /\ error = None
    /\ lastUpdated = None
    /\ polls = <<>>
    /\ searches = 0
    /\ last = Event("init")
    /\ override = None
    /\ status = <<>>
    /\ statusColor = None

(***************************************************************************)
(* History bookkeeping.  override remembers the last search that replaced  *)
(* a selection a by a selection b # a, and how many of the polls in flight *)
(* (a prefix of polls) were started before that search was applied.        *)
(***************************************************************************)
EarlyPoll(i) == override # None /\ i <= override[1].pre

OverrideAfterPoll(i) ==
    IF EarlyPoll(i) THEN Some([override[1] EXCEPT !.pre = @ - 1]) ELSE override

(***************************************************************************)
(* The closure held by the mount effect.  The effect has the dependency    *)
(* list [], so it runs once, after the first render, and both its direct   *)
(* call and the interval call the fetchAllTrains created by that render:   *)
(* the selectedTrain that function reads is the first render's value.      *)
(***************************************************************************)
InitialSelectedTrain == None

LatestSelectedTrain == selectedTrain

ClosureSelectedTrain == InitialSelectedTrain

\* fetchAllTrains up to its first await: the request is sent
fetchAllTrains ==
    /\ Len(polls) < MaxInFlight
    /\ polls' = Append(polls, [sel |-> ClosureSelectedTrain])

\* the mount effect: fetchAllTrains(); setInterval(fetchAllTrains, 5000)
Mount ==
    /\ phase = "rendered"
    /\ phase' = "mounted"
    /\ fetchAllTrains
    /\ timers' = timers + 1
    /\ last' = Event("mount")
    /\ UNCHANGED <<searchQuery, selectedTrain, allTrains, loading, error,
                   lastUpdated, searches, override>>
    /\ UNCHANGED <<status, statusColor>>

TimerTickUnlessFailed ==
    /\ last.op # "fetchFailed"
    /\ timers > 0
    /\ fetchAllTrains
    /\ last' = Event("tick")
    /\ UNCHANGED <<phase, timers, searchQuery, selectedTrain, allTrains, loading,
                   error, lastUpdated, searches, override>>
    /\ UNCHANGED <<status, statusColor>>

\* the interval fires
TimerTick ==
    /\ timers > 0
    /\ fetchAllTrains
    /\ last' = Event("tick")
    /\ UNCHANGED <<phase, timers, searchQuery, selectedTrain, allTrains, loading,
                   error, lastUpdated, searches, override>>
    /\ UNCHANGED <<status, statusColor>>

UnmountKeepingTimer ==
    /\ phase = "mounted"
    /\ phase' = "unmounted"
    /\ last' = Event("unmount")
    /\ UNCHANGED <<timers, searchQuery, selectedTrain, allTrains, loading, error,
                   lastUpdated, polls, searches, override>>
    /\ UNCHANGED <<status, statusColor>>

\* the effect's cleanup: clearInterval(interval).  Nothing else is cancelled:
\* the calls in flight keep their continuations, which call the setters as
\* before (the code holds no mounted flag and passes no abort signal).
Unmount ==
    /\ phase = "mounted"
    /\ phase' = "unmounted"
    /\ timers' = timers - 1
    /\ last' = Event("unmount")
    /\ UNCHANGED <<searchQuery, selectedTrain, allTrains, loading, error,
                   lastUpdated, polls, searches, override>>
    /\ UNCHANGED <<status, statusColor>>

\* the catch block of fetchAllTrains: console.error only
fetchAllTrainsCatchClearing ==
    /\ allTrains' = <<>>
    /\ error' = Some(SearchErrorMessage)
    /\ UNCHANGED <<selectedTrain, lastUpdated, loading>>

fetchAllTrainsCatch ==
    UNCHANGED <<selectedTrain, allTrains, lastUpdated, error, loading>>

PollDone(i, op) ==
    /\ polls' = RemoveAt(polls, i)
    /\ override' = OverrideAfterPoll(i)
    /\ last' = [Event(op) EXCEPT !.early = EarlyPoll(i)]
    /\ UNCHANGED <<phase, timers, searchQuery, searches>>
    /\ UNCHANGED <<status, statusColor>>

\* await apiGet(...) rejects
FetchRejected(i) ==
    /\ i \in 1..Len(polls)
    /\ fetchAllTrainsCatch
    /\ PollDone(i, "fetchFailed")

\* await apiGet(...) resolves with response.ok false: the if has no else
FetchNotOk(i) ==
    /\ i \in 1..Len(polls)
    /\ UNCHANGED <<selectedTrain, allTrains, lastUpdated, error, loading>>
    /\ PollDone(i, "fetchFailed")

\* response.ok is true and await response.json() rejects, or resolves with a
\* value that has no properties (null): reading data.trains throws
FetchJsonRejected(i) ==
    /\ i \in 1..Len(polls)
    /\ fetchAllTrainsCatch
    /\ PollDone(i, "fetchFailed")

\* data.trains || []
TrainsOrEmpty(trains) == IF trains = None THEN <<>> ELSE trains[1]

setAllTrainsMerging(v) ==
    allTrains' = v \o SelectSeq(allTrains, LAMBDA t : t.trainId \notin Ids(v))

setAllTrainsAppending(v) == allTrains' = allTrains \o v

setAllTrains(v) == allTrains' = v

RebindClearing(captured, trains, current) ==
    IF current # None /\ Find(TrainsOrEmpty(trains), current[1].trainId) = None
    THEN None
    ELSE current

\* lines 57-62: the value of selectedTrain after them.  captured is the
\* selectedTrain the running closure reads, trains is data.trains.
Rebind(captured, trains, current) ==
    IF captured = None THEN current
    ELSE IF trains = None THEN current     \* data.trains.find throws; caught at line 64
    ELSE LET updated == Find(trains[1], captured[1].trainId)
         IN  IF updated = None THEN current ELSE updated

\* line 58 throws a TypeError when the closure's selectedTrain is set and
\* data.trains is undefined
FindThrows(captured, trains) == captured # None /\ trains = None

\* response.ok is true and await response.json() resolves with data; trains is
\* data.trains (None when the field is absent), t the reading of new Date()
FetchJson(i, trains, t) ==
    /\ i \in 1..Len(polls)
    /\ lastUpdated # None => t >= lastUpdated[1]
    /\ setAllTrains(TrainsOrEmpty(trains))
    /\ lastUpdated' = Some(t)
    /\ selectedTrain' = Rebind(polls[i].sel, trains, selectedTrain)
    /\ UNCHANGED <<error, loading>>
    /\ polls' = RemoveAt(polls, i)
    /\ override' = OverrideAfterPoll(i)
    /\ last' = [op |-> "fetchJson", body |-> trains,
                dropped |-> ~(Ids(allTrains) \subseteq Ids(TrainsOrEmpty(trains))),
                early |-> EarlyPoll(i),
                again |-> (last.op = "fetchJson" /\ last.body = trains),
                threw |-> FindThrows(polls[i].sel, trains),
                behind |-> i - 1,
                regress |-> (last.op = "fetchJson" /\ i <= last.behind)]
    /\ UNCHANGED <<phase, timers, searchQuery, searches>>
    /\ UNCHANGED <<status, statusColor>>

\* setSearchQuery: the text of the query changes.  (The page renders no
\* search box; setSearchQuery and searchTrains are modelled as the operations
\* the component defines, callable while it is mounted.)
SetSearchQuery(q) ==
    /\ phase = "mounted"
    /\ q # searchQuery
    /\ searchQuery' = q
    /\ last' = Event("setSearchQuery")
    /\ UNCHANGED <<phase, timers, selectedTrain, allTrains, loading, error,
                   lastUpdated, polls, searches, override>>
    /\ UNCHANGED <<status, statusColor>>

\* searchTrains up to its first await
searchTrains ==
    /\ phase = "mounted"
    /\ IF Trim(searchQuery) = <<>>
       THEN UNCHANGED <<loading, error, searches>>          \* line 70: return
       ELSE /\ searches < MaxSearchesInFlight
            /\ loading' = TRUE                               \* line 72
            /\ error' = None                                 \* line 73
            /\ searches' = searches + 1      \* line 76
    /\ last' = Event("searchTrains")
    /\ UNCHANGED <<phase, timers, searchQuery, selectedTrain, allTrains,
                   lastUpdated, polls, override>>
    /\ UNCHANGED <<status, statusColor>>

\* the finally block of searchTrains, and the end of the call
SearchDone(op) ==
    /\ loading' = FALSE
    /\ searches' = searches - 1
    /\ last' = Event(op)
    /\ UNCHANGED <<phase, timers, searchQuery, polls>>
    /\ UNCHANGED <<status, statusColor>>

searchTrainsCatchClearing ==
    /\ error' = Some(SearchErrorMessage)
    /\ selectedTrain' = None
    /\ UNCHANGED <<allTrains, lastUpdated, override>>

\* the catch block of searchTrains
searchTrainsCatch ==
    /\ error' = Some(SearchErrorMessage)
    /\ UNCHANGED <<selectedTrain, allTrains, lastUpdated, override>>

\* await apiGet(...) rejects
SearchRejected ==
    /\ searches > 0
    /\ searchTrainsCatch
    /\ SearchDone("searchFailed")

\* await apiGet(...) resolves with response.ok false
SearchNotOk ==
    /\ searches > 0
    /\ error' = Some(SearchFailedMessage)
    /\ UNCHANGED <<selectedTrain, allTrains, lastUpdated, override>>
    /\ SearchDone("searchFailed")

\* response.ok is true and await response.json() rejects, or data has no
\* results: data.results.length throws
SearchJsonRejected ==
    /\ searches > 0
    /\ searchTrainsCatch
    /\ SearchDone("searchFailed")

OverrideAfterSearch(r) ==
    IF selectedTrain # None /\ selectedTrain[1].trainId # r.trainId
    THEN Some([from |-> selectedTrain[1].trainId, to |-> r.trainId, pre |-> Len(polls)])
    ELSE IF override # None /\ override[1].to = r.trainId THEN override ELSE None

LastResult(results) == results[Len(results)]

\* data.results[0]
FirstResult(results) == results[1]

\* response.ok is true and await response.json() resolves with data; results
\* is data.results
SearchJson(results) ==
    /\ searches > 0
    /\ IF Len(results) > 0
       THEN /\ selectedTrain' = Some(FirstResult(results))   \* line 81
            /\ override' = OverrideAfterSearch(FirstResult(results))
            /\ UNCHANGED error
       ELSE /\ error' = Some(NoMatchMessage)                 \* line 83
            /\ UNCHANGED <<selectedTrain, override>>
    /\ UNCHANGED <<allTrains, lastUpdated>>
    /\ loading' = FALSE
    /\ searches' = searches - 1
    /\ last' = [Event("searchJson") EXCEPT !.body = Some(results)]
    /\ UNCHANGED <<phase, timers, searchQuery, polls>>
    /\ UNCHANGED <<status, statusColor>>

\* a click on the card of allTrains[k]
selectTrain(k) ==
    /\ phase = "mounted"
    /\ k \in 1..Len(allTrains)
    /\ selectedTrain' = Some(allTrains[k])
    /\ error' = None
    /\ override' = None
    /\ last' = Event("selectTrain")
    /\ UNCHANGED <<phase, timers, searchQuery, allTrains, loading, lastUpdated,
                   polls, searches>>
    /\ UNCHANGED <<status, statusColor>>

Next ==
    \/ Mount
    \/ TimerTick
    \/ Unmount
    \/ \E i \in 1..MaxInFlight : FetchRejected(i)
    \/ \E i \in 1..MaxInFlight : FetchNotOk(i)
    \/ \E i \in 1..MaxInFlight : FetchJsonRejected(i)
    \/ \E i \in 1..MaxInFlight, trains \in {None} \cup { Some(f) : f \in Fleets }, t \in Times :
          FetchJson(i, trains, t)
    \/ \E q \in Queries : SetSearchQuery(q)
    \/ searchTrains
    \/ SearchRejected
    \/ SearchNotOk
    \/ SearchJsonRejected
    \/ \E results \in ResultLists : SearchJson(results)
    \/ \E k \in 1..Cardinality(TrainIds) : selectTrain(k)

Spec == Init /\ [][Next]_vars

(***************************************************************************)
(* getStatusColor.  A status is a string, modelled as the sequence of its  *)
(* characters so that toLowerCase is computed.                             *)
(***************************************************************************)
LowerCaseLetters == <<"a", "b", "c", "d", "e", "f", "g", "h", "i", "j", "k", "l", "m", "n", "o", "p", "q", "r", "s", "t", "u", "v", "w", "x", "y", "z">>
UpperCaseLetters == <<"A", "B", "C", "D", "E", "F", "G", "H", "I", "J", "K", "L", "M", "N", "O", "P", "Q", "R", "S", "T", "U", "V", "W", "X", "Y", "Z">>

\* String.prototype.toLowerCase, one character
ToLowerChar(c) ==
    IF \E i \in 1..Len(UpperCaseLetters) : UpperCaseLetters[i] = c
    THEN LowerCaseLetters[CHOOSE i \in 1..Len(UpperCaseLetters) : UpperCaseLetters[i] = c]
    ELSE c

toLowerCaseNothing(s) == s

\* String.prototype.toLowerCase
toLowerCase(s) == [i \in 1..Len(s) |-> ToLowerChar(s[i])]

\* lines 100-111
getStatusColor(st) ==
    LET s == toLowerCase(st)
    IN  CASE s = <<"p", "r", "o", "c", "e", "e", "d">> -> "text-green-600 bg-green-50"
          [] s = <<"o", "n", " ", "t", "i", "m", "e">> -> "text-green-600 bg-green-50"
          [] s = <<"w", "a", "r", "n", "i", "n", "g">> -> "text-amber-600 bg-amber-50"
          [] s = <<"d", "e", "l", "a", "y", "e", "d">> -> "text-amber-600 bg-amber-50"
          [] s = <<"h", "o", "l", "d">> -> "text-red-600 bg-red-50"
          [] s = <<"s", "t", "o", "p", "p", "e", "d">> -> "text-red-600 bg-red-50"
          [] s = <<"e", "a", "r", "l", "y">> -> "text-blue-600 bg-blue-50"
          [] OTHER -> "text-gray-600 bg-gray-50"

ToUpperChar(c) ==
    IF \E i \in 1..Len(LowerCaseLetters) : LowerCaseLetters[i] = c
    THEN UpperCaseLetters[CHOOSE i \in 1..Len(LowerCaseLetters) : LowerCaseLetters[i] = c]
    ELSE c

\* every way of writing the word w in upper and lower case
RECURSIVE Casings(_)
Casings(w) ==
    IF w = <<>> THEN { <<>> }
    ELSE { <<c>> \o r : c \in {Head(w), ToUpperChar(Head(w))}, r \in Casings(Tail(w)) }

\* the words status is drawn from: the seven the switch names and four others
StatusWords ==
    { <<"p", "r", "o", "c", "e", "e", "d">>, <<"o", "n", " ", "t", "i", "m", "e">>, <<"w", "a", "r", "n", "i", "n", "g">>, <<"d", "e", "l", "a", "y", "e", "d">>, <<"h", "o", "l", "d">>, <<"s", "t", "o", "p", "p", "e", "d">>, <<"e", "a", "r", "l", "y">>,
      <<"o", "n", "-", "t", "i", "m", "e">>, <<"u", "n", "k", "n", "o", "w", "n">>, <<"h", "o", "l", "d", "s">>, <<>> }

StatusStrings == UNION { Casings(w) : w \in StatusWords }

ColorInit ==
    /\ phase = "rendered"
    /\ timers = 0
    /\ searchQuery = <<>>
    /\ selectedTrain = None
    /\ allTrains = <<>>
    /\ loading = FALSE
    /\ error = None
    /\ lastUpdated = None
    /\ polls = <<>>
    /\ searches = 0
    /\ last = Event("init")
    /\ override = None
    /\ status \in StatusStrings
    /\ statusColor = None

\* a call of getStatusColor(status) returns
GetStatusColorReturns ==
    /\ statusColor = None
    /\ statusColor' = Some(getStatusColor(status))
    /\ UNCHANGED <<phase, timers, searchQuery, selectedTrain, allTrains, loading,
                   error, lastUpdated, polls, searches, last, override, status>>

ColorNext == GetStatusColorReturns

ColorSpec == ColorInit /\ [][ColorNext]_vars

(***************************************************************************)
(* Properties.                                                             *)
(***************************************************************************)
PollEvents == {"fetchFailed", "fetchJson"}

\* the list a poll returned (data.trains), when it returned one
Snapshot(e) == e.body[1]

HasSnapshot(e) == e.op = "fetchJson" /\ e.body # None

IsBlank(q) == \A i \in 1..Len(q) : q[i] = " "

\* C1: right after a successful poll whose snapshot holds a record with the
\* selected trainId, selectedTrain is that record of the snapshot.
SelectionRebound ==
    (HasSnapshot(last) /\ selectedTrain # None
        /\ Find(Snapshot(last), selectedTrain[1].trainId) # None)
    => selectedTrain = Find(Snapshot(last), selectedTrain[1].trainId)

\* C2: a poll outcome (failed or successful) never clears the selection nor
\* changes the selected trainId, and when the poll failed or its snapshot
\* lacks the selected trainId the selected record is kept as it was.
IdentityStability ==
    [][(last'.op \in PollEvents /\ selectedTrain # None)
        => /\ selectedTrain' # None
           /\ selectedTrain'[1].trainId = selectedTrain[1].trainId
           /\ (\/ ~HasSnapshot(last')
               \/ Find(Snapshot(last'), selectedTrain[1].trainId) = None)
              => selectedTrain' = selectedTrain]_vars

IdentityStabilityWitness ==
    /\ HasSnapshot(last)
    /\ Snapshot(last) # <<>>
    /\ selectedTrain # None
    /\ Find(Snapshot(last), selectedTrain[1].trainId) = None

\* C3: after a search has replaced the selection a by b # a, the selection
\* stays on b through every poll applied until the user selects again, also
\* through polls that were in flight when the search result was applied.
SearchOverridesFetch ==
    override # None
    => selectedTrain # None /\ selectedTrain[1].trainId = override[1].to

SearchOverridesFetchWitness ==
    /\ override # None
    /\ HasSnapshot(last)
    /\ last.early
    /\ {override[1].from, override[1].to} \subseteq Ids(Snapshot(last))

\* C4: right after a successful poll that returned a list, allTrains is
\* exactly that list.
ReplacementNotMerge ==
    HasSnapshot(last) => allTrains = Snapshot(last)

ReplacementNotMergeWitness ==
    /\ HasSnapshot(last)
    /\ last.dropped
    /\ allTrains # <<>>

\* C5: a failed poll (apiGet rejects, response not ok, reading the body
\* rejects) leaves allTrains, selectedTrain, lastUpdated and error as they were.
FetchFailureLeavesState ==
    [][last'.op = "fetchFailed"
        => UNCHANGED <<allTrains, selectedTrain, lastUpdated, error>>]_vars

FetchFailureLeavesStateWitness ==
    /\ last.op = "fetchFailed"
    /\ allTrains # <<>>
    /\ selectedTrain # None
    /\ lastUpdated # None

\* C6: at most one fleet fetch started by the mount effect or the interval
\* is in flight.
PollsNeverOverlap == Len(polls) <= 1

\* C7: after the effect's cleanup has run, no step writes allTrains,
\* lastUpdated or selectedTrain.
NoUpdateAfterTeardown ==
    [][phase = "unmounted"
        => UNCHANGED <<allTrains, lastUpdated, selectedTrain>>]_vars

\* C8: no step of a failing search writes selectedTrain, allTrains or
\* lastUpdated; its completion sets error to a failure message and loading
\* to false.
SearchFailureKeepsData ==
    [][/\ last'.op \in {"searchTrains", "searchFailed"}
          => UNCHANGED <<selectedTrain, allTrains, lastUpdated>>
       /\ last'.op = "searchFailed"
          => /\ error' \in { Some("Search failed. Please try again."),
                             Some("Search error. Please check your connection.") }
             /\ loading' = FALSE]_vars

SearchFailureKeepsDataWitness ==
    /\ last.op = "searchFailed"
    /\ selectedTrain # None
    /\ allTrains # <<>>

\* C9: a search answered ok with an empty results list sets error to the
\* no-match message, which is neither of the failure messages, and writes
\* neither selectedTrain nor allTrains.
NoMatchDistinct ==
    [][(last'.op = "searchJson" /\ last'.body = Some(<<>>))
        => /\ error' = Some("No trains found matching your search")
           /\ error' \notin { Some(SearchFailedMessage), Some(SearchErrorMessage) }
           /\ UNCHANGED <<selectedTrain, allTrains>>]_vars

NoMatchDistinctWitness ==
    /\ last.op = "searchJson"
    /\ last.body = Some(<<>>)
    /\ selectedTrain # None
    /\ allTrains # <<>>

\* C10: a call of searchTrains with an empty or all-blank searchQuery sends
\* no request and changes no state cell.
EmptyQueryNoOp ==
    [][(last'.op = "searchTrains" /\ IsBlank(searchQuery))
        => UNCHANGED <<searchQuery, selectedTrain, allTrains, loading, error,
                       lastUpdated, searches, polls>>]_vars

EmptyQueryNoOpWitness ==
    /\ last.op = "searchTrains"
    /\ IsBlank(searchQuery)
    /\ searchQuery # <<>>
    /\ error # None

\* C11 (as stated): two successful polls handled one right after the other
\* that returned the same snapshot leave allTrains, selectedTrain, lastUpdated
\* and error after the second as they were after the first.
IdempotentReplay ==
    [][(last.op = "fetchJson" /\ last'.op = "fetchJson" /\ last'.body = last.body)
        => UNCHANGED <<allTrains, selectedTrain, lastUpdated, error>>]_vars

\* C11 (amended): such a second poll leaves allTrains, selectedTrain and
\* error as they were, and sets lastUpdated to its own reading of the clock,
\* which is not earlier than the first poll's.
IdempotentReplayButTimestamp ==
    [][(last.op = "fetchJson" /\ last'.op = "fetchJson" /\ last'.body = last.body)
        => /\ UNCHANGED <<allTrains, selectedTrain, error>>
           /\ lastUpdated # None /\ lastUpdated' # None
           /\ lastUpdated'[1] >= lastUpdated[1]]_vars

IdempotentReplayWitness ==
    /\ last.op = "fetchJson"
    /\ last.again
    /\ allTrains # <<>>
    /\ selectedTrain # None
    /\ lastUpdated = Some(1)

\* C12: a poll answered ok whose body has no trains field empties allTrains,
\* sets lastUpdated, keeps selectedTrain and error, and throws nothing.
MissingTrainsIsEmptyFleet ==
    [][(last'.op = "fetchJson" /\ last'.body = None)
        => /\ allTrains' = <<>>
           /\ lastUpdated' # None
           /\ UNCHANGED <<selectedTrain, error>>
           /\ ~last'.threw]_vars

MissingTrainsIsEmptyFleetWitness ==
    /\ last.op = "fetchJson"
    /\ last.body = None
    /\ last.dropped
    /\ selectedTrain # None

\* C13: right after a search has selected its first result, or selectTrain
\* has run, error is null.
ErrorClearedOnSelection ==
    (\/ last.op = "selectTrain"
     \/ last.op = "searchJson" /\ last.body # Some(<<>>))
    => error = None

\* C14: a search answered ok with at least one result sets selectedTrain to
\* results[0] and leaves allTrains and lastUpdated as they were.
FirstResultPolicy ==
    [][(last'.op = "searchJson" /\ last'.body # Some(<<>>))
        => /\ selectedTrain' = Some(last'.body[1][1])
           /\ UNCHANGED <<allTrains, lastUpdated>>]_vars

FirstResultPolicyWitness ==
    /\ last.op = "searchJson"
    /\ Len(last.body[1]) = 2
    /\ last.body[1][1].trainId > last.body[1][2].trainId
    /\ allTrains # <<>>
    /\ selectedTrain[1].trainId \notin Ids(allTrains)

\* C15: while the component is mounted exactly one interval timer exists;
\* once the cleanup has run none exists, no tick fires and no fetch is started.
TimerStops ==
    [][/\ phase = "mounted" => timers = 1
       /\ phase' = "mounted" => timers' = 1
       /\ phase' = "unmounted" => timers' = 0
       /\ phase = "unmounted"
          => timers = 0 /\ last'.op # "tick" /\ Len(polls') <= Len(polls)]_vars

TimerStopsWitness ==
    /\ phase = "unmounted"
    /\ last.op = "fetchJson"
    /\ polls = <<>>

\* s is the word w written in some mix of upper and lower case
IsCasingOf(s, w) ==
    /\ Len(s) = Len(w)
    /\ \A i \in 1..Len(w) : s[i] \in {w[i], ToUpperChar(w[i])}

\* C16 (as stated): getStatusColor returns the success class for proceed and
\* on-time, the caution class for warning and delayed, the danger class for
\* hold and stopped, the info class for early and the neutral class for any
\* other string.
StatusColorByName ==
    statusColor # None
    => statusColor[1] =
         CASE status \in {<<"p", "r", "o", "c", "e", "e", "d">>, <<"o", "n", "-", "t", "i", "m", "e">>} -> "text-green-600 bg-green-50"
           [] status \in {<<"w", "a", "r", "n", "i", "n", "g">>, <<"d", "e", "l", "a", "y", "e", "d">>} -> "text-amber-600 bg-amber-50"
           [] status \in {<<"h", "o", "l", "d">>, <<"s", "t", "o", "p", "p", "e", "d">>} -> "text-red-600 bg-red-50"
           [] status = <<"e", "a", "r", "l", "y">> -> "text-blue-600 bg-blue-50"
           [] OTHER -> "text-gray-600 bg-gray-50"

\* C16 (amended): getStatusColor compares the status without regard to case:
\* any casing of "proceed" or "on time" gives the success class, of "warning"
\* or "delayed" the caution class, of "hold" or "stopped" the danger class,
\* of "early" the info class, and every other string (among them "on-time")
\* the neutral class; the five classes are pairwise distinct and the call
\* writes no state cell.
StatusColorIgnoringCase ==
    /\ statusColor # None
       => statusColor[1] =
            CASE IsCasingOf(status, <<"p", "r", "o", "c", "e", "e", "d">>) \/ IsCasingOf(status, <<"o", "n", " ", "t", "i", "m", "e">>)
                   -> "text-green-600 bg-green-50"
              [] IsCasingOf(status, <<"w", "a", "r", "n", "i", "n", "g">>) \/ IsCasingOf(status, <<"d", "e", "l", "a", "y", "e", "d">>)
                   -> "text-amber-600 bg-amber-50"
              [] IsCasingOf(status, <<"h", "o", "l", "d">>) \/ IsCasingOf(status, <<"s", "t", "o", "p", "p", "e", "d">>)
                   -> "text-red-600 bg-red-50"
              [] IsCasingOf(status, <<"e", "a", "r", "l", "y">>) -> "text-blue-600 bg-blue-50"
              [] OTHER -> "text-gray-600 bg-gray-50"
    /\ Cardinality({ getStatusColor(<<"p", "r", "o", "c", "e", "e", "d">>), getStatusColor(<<"w", "a", "r", "n", "i", "n", "g">>),
                     getStatusColor(<<"h", "o", "l", "d">>), getStatusColor(<<"e", "a", "r", "l", "y">>),
                     getStatusColor(<<"u", "n", "k", "n", "o", "w", "n">>) }) = 5
    /\ <<searchQuery, selectedTrain, allTrains, loading, error, lastUpdated>>
         = <<<<>>, None, <<>>, FALSE, None, None>>

StatusColorWitness ==
    /\ status = <<"O", "n", " ", "T", "i", "m", "e">>
    /\ statusColor = Some("text-green-600 bg-green-50")

\* the interval keeps firing while it is installed
FairSpec == Spec /\ WF_vars(TimerTick)

\* C17: while the component stays mounted, a failed poll is followed by a
\* timer tick that starts the next fetch.
PollingSurvivesFailures ==
    (last.op = "fetchFailed" /\ phase = "mounted")
        ~> (last.op = "tick" \/ phase = "unmounted")

PollingSurvivesFailuresWitness ==
    /\ last.op = "tick"
    /\ phase = "mounted"
    /\ lastUpdated = None
    /\ Len(polls) = 1

\* C18: lastUpdated and allTrains change only in the step that applies a
\* successful poll, which leaves lastUpdated non-null; lastUpdated never
\* returns to null, so it is non-null exactly when such a step has happened.
LastUpdatedOnlyOnPoll ==
    [][/\ lastUpdated' # lastUpdated => last'.op = "fetchJson"
       /\ allTrains' # allTrains => last'.op = "fetchJson"
       /\ last'.op = "fetchJson" => lastUpdated' # None
       /\ lastUpdated # None => lastUpdated' # None]_vars

LastUpdatedOnlyOnPollWitness ==
    /\ last.op = "searchFailed"
    /\ lastUpdated = Some(1)
    /\ allTrains # <<>>
    /\ polls # <<>>

\* C19: the response of a poll started before the poll whose response was
\* applied in the previous step does not overwrite allTrains.
EntitiesNeverRegress ==
    [][(last'.op = "fetchJson" /\ last'.regress) => UNCHANGED allTrains]_vars

\* C20: loading is true exactly when a searchTrains call that passed the
\* empty-query check has not yet completed.
LoadingTracksSearches ==
    loading = (searches > 0)

====
